---- MODULE Spec2Model ----
(***************************************************************************)
(* CometLogger (lightning/pytorch/loggers/comet.py): the logger adapter     *)
(* between the training loop and the comet_ml client.  The model covers     *)
(* construction, the lazy `experiment` accessor, the four write calls,      *)
(* reset_experiment, finalize, __getstate__ and reconstruction in another   *)
(* process, with the rank gating of the decorators.                         *)
(***************************************************************************)
EXTENDS Integers, Sequences, FiniteSets, TLC

\* ---- bounds ------------------------------------------------------------
MaxLoggers == 2      \* adapter instances (constructed or reconstructed)
MaxSessions == 2     \* sessions the client starts in one behaviour

\* ---- values ------------------------------------------------------------
None == "None"            \* Python None in a string-valued attribute
Unset == "<unassigned>"   \* an attribute no assignment has created
NoSession == 0            \* self._experiment is None
Dummy == 0 - 1            \* the _DummyExperiment of rank_zero_experiment

Procs == {"main", "worker"}   \* the processes of the distributed job
Ranks == {0, 1}               \* the values rank_zero_only.rank takes

VARIABLES
    rank,                \* rank_zero_only.rank of each process
    loggers,             \* the adapter instances, in order of creation
    sessions,            \* the sessions the client has started
    guids,               \* identifiers generated so far
    config_api_key,      \* comet_ml.config.get_api_key(None, get_config())
    env_experiment_key,  \* os.environ.get("COMET_EXPERIMENT_KEY")
    last                 \* what the last operation did (observation)

vars == <<rank, loggers, sessions, guids, config_api_key, env_experiment_key, last>>

\* ---- Python helpers ------------------------------------------------------
\* truth value of an Optional[str]
Truthy(s) == s # None /\ s # ""

\* `a or b`
PyOr(a, b) == IF Truthy(a) THEN a ELSE b

\* comet_ml.generate_guid(): the n-th identifier, different from all others
Guid(n) == "guid" \o ToString(n)

\* ---- constructor arguments ------------------------------------------------
NoArgs == [api_key |-> None, save_dir |-> None, project_name |-> None,
           experiment_name |-> None, experiment_key |-> None,
           offline |-> FALSE, prefix |-> "", kwargs |-> "{}"]

\* every combination the constructor distinguishes
FullArgs == [api_key : {None, "", "key"}, save_dir : {None, "dir"},
             project_name : {None, "proj"}, experiment_name : {None, "name"},
             experiment_key : {None, "", "k1"}, offline : BOOLEAN,
             prefix : {"", "pre"}, kwargs : {"{}", "{workspace}"}]

\* the combinations that differ in the prefix only
PrefixArgs == [api_key : {"key"}, save_dir : {"dir"},
               project_name : {"proj"}, experiment_name : {None},
               experiment_key : {"k1"}, offline : {FALSE},
               prefix : {"", "pre"}, kwargs : {"{}"}]

\* the combinations used where several adapters live side by side
LifeArgs == [api_key : {"key"}, save_dir : {"dir"},
             project_name : {"proj"}, experiment_name : {None},
             experiment_key : {"k1"}, offline : {FALSE},
             prefix : {""}, kwargs : {"{}"}]

\* ---- metric values ------------------------------------------------------------
\* a plain number, and the tensors by where they live and whether they hang on
\* a computation graph; NoValue: None where a value is expected
Float == [kind |-> "float", device |-> "host", attached |-> FALSE]
Tensors == [kind : {"tensor"}, device : {"cuda", "cpu"}, attached : BOOLEAN]
NoValue == [kind |-> "None", device |-> "host", attached |-> FALSE]
MetricValues == {Float} \cup Tensors

\* the metric names: the reserved one, a plain one, one that looks prefixed
MetricKeys == {"epoch", "loss", "pre-loss"}

\* every mapping from some of the names to values
MetricInputs == UNION {[S -> MetricValues] : S \in SUBSET MetricKeys}

\* the mapping logged where the values do not matter
LifeMetrics == {[key \in {"loss"} |-> Float]}

Steps == {None, "7"}

LOGGER_JOIN_CHAR == "-"

\* ---- the world an operation works on ----------------------------------------
\* calls: the calls into the remote client, in order, each with its method m,
\* the handle h it went to and its arguments a; raised: the exception that
\* left the operation; ret: the value the last accessor or property returned
World == [loggers |-> loggers, sessions |-> sessions, guids |-> guids,
          calls |-> <<>>, raised |-> "none", ret |-> NoSession]

RankOf(w, i) == rank[w.loggers[i].proc]

\* ---- CometLogger.__init__ ------------------------------------------------------
\* a both-given branch that forgets the offline flag
ModeBranch_ignores_offline(api_key, save_dir, offline) ==
    IF api_key # None /\ save_dir # None
    THEN [raised |-> "none", mode |-> "online", api_key |-> api_key, _save_dir |-> save_dir]
    ELSE IF api_key # None
    THEN [raised |-> "none", mode |-> "online", api_key |-> api_key, _save_dir |-> None]
    ELSE IF save_dir # None
    THEN [raised |-> "none", mode |-> "offline", api_key |-> Unset, _save_dir |-> save_dir]
    ELSE [raised |-> "MisconfigurationException", mode |-> Unset, api_key |-> Unset,
          _save_dir |-> Unset]

\* a last branch that falls back to offline mode instead of raising
ModeBranch_never_raises(api_key, save_dir, offline) ==
    IF api_key # None /\ save_dir # None
    THEN [raised |-> "none", mode |-> IF offline THEN "offline" ELSE "online",
          api_key |-> api_key, _save_dir |-> save_dir]
    ELSE IF api_key # None
    THEN [raised |-> "none", mode |-> "online", api_key |-> api_key, _save_dir |-> None]
    ELSE [raised |-> "none", mode |-> "offline", api_key |-> Unset, _save_dir |-> save_dir]

\* the branch on api_key / save_dir: the attributes it assigns (api_key stays
\* without a value where no branch assigns it), or the exception it raises
ModeBranch(api_key, save_dir, offline) ==
    IF api_key # None /\ save_dir # None
    THEN [raised |-> "none", mode |-> IF offline THEN "offline" ELSE "online",
          api_key |-> api_key, _save_dir |-> save_dir]
    ELSE IF api_key # None
    THEN [raised |-> "none", mode |-> "online", api_key |-> api_key, _save_dir |-> None]
    ELSE IF save_dir # None
    THEN [raised |-> "none", mode |-> "offline", api_key |-> Unset, _save_dir |-> save_dir]
    ELSE [raised |-> "MisconfigurationException", mode |-> Unset, api_key |-> Unset,
          _save_dir |-> Unset]

\* a constructor that asks the environment before the argument
CometLogger__init__env_first(w, p, args) ==
    LET api_key == PyOr(args.api_key, config_api_key)
        br == ModeBranch(api_key, args.save_dir, args.offline)
        envkey == PyOr(env_experiment_key, args.experiment_key)
        gen == ~Truthy(envkey)
        lg == [proc |-> p,
               mode |-> br.mode,
               api_key |-> br.api_key,
               _save_dir |-> br._save_dir,
               _project_name |-> args.project_name,
               _experiment_key |-> IF gen THEN Guid(w.guids + 1) ELSE envkey,
               _experiment_name |-> args.experiment_name,
               _prefix |-> args.prefix,
               _kwargs |-> args.kwargs,
               _experiment |-> NoSession,
               given |-> [api_key |-> args.api_key, save_dir |-> args.save_dir,
                          offline |-> args.offline],
               origin |-> [kind |-> "ctor", key |-> None]]
    IN  IF br.raised # "none"
        THEN [w EXCEPT !.raised = br.raised]
        ELSE [w EXCEPT !.loggers = Append(@, lg),
                       !.guids = IF gen THEN @ + 1 ELSE @]

\* the adapter __init__ leaves behind, or the exception it raises
\* (given, origin: history kept for the properties)
CometLogger__init__(w, p, args) ==
    LET api_key == PyOr(args.api_key, config_api_key)
        br == ModeBranch(api_key, args.save_dir, args.offline)
        envkey == PyOr(args.experiment_key, env_experiment_key)
        gen == ~Truthy(envkey)
        lg == [proc |-> p,
               mode |-> br.mode,
               api_key |-> br.api_key,
               _save_dir |-> br._save_dir,
               _project_name |-> args.project_name,
               _experiment_key |-> IF gen THEN Guid(w.guids + 1) ELSE envkey,
               _experiment_name |-> args.experiment_name,
               _prefix |-> args.prefix,
               _kwargs |-> args.kwargs,
               _experiment |-> NoSession,
               given |-> [api_key |-> args.api_key, save_dir |-> args.save_dir,
                          offline |-> args.offline],
               origin |-> [kind |-> "ctor", key |-> None]]
    IN  IF br.raised # "none"
        THEN [w EXCEPT !.raised = br.raised]
        ELSE [w EXCEPT !.loggers = Append(@, lg),
                       !.guids = IF gen THEN @ + 1 ELSE @]

\* ---- the remote client ------------------------------------------------------------
\* comet_ml.start(api_key, project, experiment_key, online, experiment_config):
\* a new live session; it has the key it was asked for, or a generated one
comet_ml_start(w, i) ==
    LET lg == w.loggers[i]
        gen == lg._experiment_key = None
        s == [key |-> IF gen THEN Guid(w.guids + 1) ELSE lg._experiment_key,
              alive |-> TRUE,
              owner |-> i,
              online |-> (lg.mode = "online"),
              offline_directory |-> lg._save_dir,
              project_name |-> lg._project_name,
              name |-> lg._experiment_name,
              tagged |-> FALSE]
    IN  [w EXCEPT !.sessions = Append(@, s),
                  !.guids = IF gen THEN @ + 1 ELSE @,
                  !.calls = Append(@, [m |-> "start", h |-> Len(w.sessions) + 1,
                                       a |-> lg._experiment_key]),
                  !.ret = Len(w.sessions) + 1]

\* a call of method m with arguments a on the handle h; the _DummyExperiment
\* swallows it
HandleCall(w, h, m, a) ==
    IF h = Dummy THEN w ELSE [w EXCEPT !.calls = Append(@, [m |-> m, h |-> h, a |-> a])]

\* handle.end()
HandleEnd(w, h) ==
    IF h = Dummy THEN w
    ELSE [w EXCEPT !.sessions[h].alive = FALSE,
                   !.calls = Append(@, [m |-> "end", h |-> h, a |-> "()"])]

\* ---- the decorators ----------------------------------------------------------------
\* rank_zero_only(fn): on rank 0 the call is fn's (result: what fn does to w),
\* elsewhere it returns None
rank_zero_only(w, i, result) ==
    IF RankOf(w, i) = 0 THEN result ELSE w

\* rank_zero_experiment(fn): a _DummyExperiment on every rank but 0, where
\* the call is fn's
rank_zero_experiment(w, i, result) ==
    IF RankOf(w, i) > 0 THEN [w EXCEPT !.ret = Dummy] ELSE result

\* ---- CometLogger.experiment ---------------------------------------------------------
\* a body that returns the new session without caching it
experiment_fget_uncached(w, i) ==
    LET lg == w.loggers[i]
    IN  IF lg._experiment # NoSession /\ w.sessions[lg._experiment].alive
        THEN [w EXCEPT !.ret = lg._experiment]
        ELSE IF lg.api_key = Unset
        THEN [w EXCEPT !.raised = "AttributeError"]
        ELSE LET w1 == comet_ml_start(w, i)
             IN  [w1 EXCEPT !.sessions[w1.ret].tagged = TRUE,
                            !.calls = Append(@, [m |-> "log_other", h |-> w1.ret,
                                                 a |-> "Created from"])]

\* the body of the property
experiment_fget(w, i) ==
    LET lg == w.loggers[i]
    IN  IF lg._experiment # NoSession /\ w.sessions[lg._experiment].alive
        THEN [w EXCEPT !.ret = lg._experiment]
        ELSE IF lg.api_key = Unset
        THEN [w EXCEPT !.raised = "AttributeError"]
        ELSE LET w1 == comet_ml_start(w, i)
                 w2 == [w1 EXCEPT !.loggers[i]._experiment = w1.ret]
             IN  [w2 EXCEPT !.sessions[w1.ret].tagged = TRUE,
                            !.calls = Append(@, [m |-> "log_other", h |-> w1.ret,
                                                 a |-> "Created from"])]

\* the property without its rank decorator
experiment_undecorated(w, i) == experiment_fget(w, i)

\* @property @rank_zero_experiment
experiment(w, i) == rank_zero_experiment(w, i, experiment_fget(w, i))

\* ---- the write calls ------------------------------------------------------------------
log_hyperparams_fn(w, i) ==
    LET w1 == experiment(w, i)
    IN  IF w1.raised # "none" THEN w1
        ELSE HandleCall(w1, w1.ret, "log_parameters", "params")

\* @rank_zero_only
log_hyperparams(w, i) == rank_zero_only(w, i, log_hyperparams_fn(w, i))

\* val.cpu().detach()
cpu_detach(val) == [val EXCEPT !.device = "cpu", !.attached = FALSE]

\* _add_prefix(metrics, prefix, separator): every key behind the prefix and the
\* separator, the mapping itself when the prefix is empty
_add_prefix(metrics, prefix, separator) ==
    IF prefix = "" THEN metrics
    ELSE [key \in {prefix \o separator \o k : k \in DOMAIN metrics} |->
             metrics[CHOOSE k \in DOMAIN metrics : prefix \o separator \o k = key]]

\* a body that looks for "epoch" after the prefix is on the keys
metrics_without_epoch_pop_last(metrics, prefix) ==
    LET converted == [key \in DOMAIN metrics |->
                         IF metrics[key].kind = "tensor"
                         THEN cpu_detach(metrics[key]) ELSE metrics[key]]
        prefixed == _add_prefix(converted, prefix, LOGGER_JOIN_CHAR)
    IN  [epoch |-> IF "epoch" \in DOMAIN prefixed THEN prefixed["epoch"] ELSE NoValue,
         metrics |-> [key \in DOMAIN prefixed \ {"epoch"} |-> prefixed[key]]]

\* a body that takes "epoch" out before the tensors are converted
metrics_without_epoch_pop_first(metrics, prefix) ==
    LET popped == [key \in DOMAIN metrics \ {"epoch"} |-> metrics[key]]
        converted == [key \in DOMAIN popped |->
                         IF popped[key].kind = "tensor"
                         THEN cpu_detach(popped[key]) ELSE popped[key]]
    IN  [epoch |-> IF "epoch" \in DOMAIN metrics THEN metrics["epoch"] ELSE NoValue,
         metrics |-> _add_prefix(converted, prefix, LOGGER_JOIN_CHAR)]

\* lines 295-301: the copy with every tensor converted, "epoch" popped out of
\* it, and the prefix on the keys that remain
metrics_without_epoch(metrics, prefix) ==
    LET converted == [key \in DOMAIN metrics |->
                         IF metrics[key].kind = "tensor"
                         THEN cpu_detach(metrics[key]) ELSE metrics[key]]
        popped == [key \in DOMAIN converted \ {"epoch"} |-> converted[key]]
    IN  [epoch |-> IF "epoch" \in DOMAIN converted THEN converted["epoch"] ELSE NoValue,
         metrics |-> _add_prefix(popped, prefix, LOGGER_JOIN_CHAR)]

\* the body: the assertion, then the call on self.experiment
log_metrics_fn(w, i, metrics, step) ==
    IF RankOf(w, i) # 0 THEN [w EXCEPT !.raised = "AssertionError"]
    ELSE LET out == metrics_without_epoch(metrics, w.loggers[i]._prefix)
             w1 == experiment(w, i)
         IN  IF w1.raised # "none" THEN w1
             ELSE HandleCall(w1, w1.ret, "log_metrics",
                             [metrics |-> out.metrics, step |-> step, epoch |-> out.epoch])

\* the method without its rank decorator
log_metrics_undecorated(w, i, metrics, step) == log_metrics_fn(w, i, metrics, step)

\* @rank_zero_only
log_metrics(w, i, metrics, step) == rank_zero_only(w, i, log_metrics_fn(w, i, metrics, step))

reset_experiment(w, i) == [w EXCEPT !.loggers[i]._experiment = NoSession]

\* a finalize without the early return on an empty handle
finalize_fn_unguarded(w, i) ==
    LET w1 == experiment(w, i)
    IN  IF w1.raised # "none" THEN w1
        ELSE reset_experiment(HandleEnd(w1, w1.ret), i)

finalize_fn(w, i) ==
    IF w.loggers[i]._experiment = NoSession THEN w
    ELSE LET w1 == experiment(w, i)
         IN  IF w1.raised # "none" THEN w1
             ELSE reset_experiment(HandleEnd(w1, w1.ret), i)

\* @rank_zero_only
finalize(w, i) == rank_zero_only(w, i, finalize_fn(w, i))

\* a log_graph that goes through the accessor
log_graph_via_accessor(w, i) ==
    LET w1 == experiment(w, i)
    IN  IF w1.raised # "none" THEN w1
        ELSE HandleCall(w1, w1.ret, "set_model_graph", "model")

\* no rank decorator: the body runs on every rank
log_graph(w, i) ==
    IF w.loggers[i]._experiment # NoSession
    THEN HandleCall(w, w.loggers[i]._experiment, "set_model_graph", "model")
    ELSE w

\* ---- the read-only properties ---------------------------------------------------------------
save_dir(w, i) == [w EXCEPT !.ret = w.loggers[i]._save_dir]

name(w, i) ==
    LET lg == w.loggers[i]
    IN  IF lg._experiment # NoSession /\ w.sessions[lg._experiment].project_name # None
        THEN [w EXCEPT !.ret = w.sessions[lg._experiment].project_name]
        ELSE IF lg._project_name # None
        THEN [w EXCEPT !.ret = lg._project_name]
        ELSE [w EXCEPT !.ret = "comet-default"]

\* a version that asks the accessor for the session
version_via_accessor(w, i) ==
    LET w1 == experiment(w, i)
    IN  IF w1.raised # "none" \/ w1.ret = Dummy THEN w1
        ELSE [w1 EXCEPT !.ret = w1.sessions[w1.ret].key]

version(w, i) ==
    LET lg == w.loggers[i]
    IN  IF lg._experiment # NoSession
        THEN [w EXCEPT !.ret = w.sessions[lg._experiment].key]
        ELSE [w EXCEPT !.ret = lg._experiment_key]

\* ---- serialization ----------------------------------------------------------------------
\* a __getstate__ that keeps the constructor-time key beside a session
getstate_stale_key(w, i) ==
    LET lg == w.loggers[i]
        has == lg._experiment # NoSession
    IN  [kind |-> "state",
         state |-> [lg EXCEPT
             !._experiment_key = IF has THEN lg._experiment_key ELSE None,
             !._experiment = NoSession,
             !.origin = IF has
                        THEN [kind |-> "live", key |-> w.sessions[lg._experiment].key]
                        ELSE [kind |-> "empty", key |-> lg._experiment_key]]]

\* __getstate__: the copy of __dict__ with the two overwritten entries
\* (origin: history, the key the adapter answered to when the copy was taken)
__getstate__(w, i) ==
    LET lg == w.loggers[i]
        has == lg._experiment # NoSession
    IN  [kind |-> "state",
         state |-> [lg EXCEPT
             !._experiment_key = IF has THEN w.sessions[lg._experiment].key ELSE None,
             !._experiment = NoSession,
             !.origin = IF has
                        THEN [kind |-> "live", key |-> w.sessions[lg._experiment].key]
                        ELSE [kind |-> "empty", key |-> lg._experiment_key]]]

\* unpickling in process p: a new instance whose __dict__ is the snapshot
Reconstruct(w, p, snap) ==
    [w EXCEPT !.loggers = Append(@, [snap.state EXCEPT !.proc = p])]

\* ---- actions -----------------------------------------------------------------------------
\* the operation op on adapter i took the world to w
Done(op, i, src, p, args, w) ==
    /\ Len(w.sessions) <= MaxSessions
    /\ loggers' = w.loggers
    /\ sessions' = w.sessions
    /\ guids' = w.guids
    /\ last' = [op |-> op, logger |-> i, source |-> src, rank |-> rank[p], args |-> args,
                calls |-> w.calls, raised |-> w.raised, ret |-> w.ret,
                started |-> IF Len(w.sessions) > Len(sessions)
                            THEN Len(w.sessions) ELSE NoSession,
                first |-> \A s \in 1..Len(sessions) : sessions[s].owner # i]
    /\ UNCHANGED <<rank, config_api_key, env_experiment_key>>

Live == 1..Len(loggers)

\* CometLogger(...) in process p: the adapter of the job, which reaches the
\* other processes by pickling
Construct ==
    \E p \in Procs, args \in LifeArgs :
        /\ loggers = <<>>
        /\ Done("__init__", Len(loggers) + 1, NoSession, p, args, CometLogger__init__(World, p, args))

\* the one adapter of a run, from any arguments
ConstructFull ==
    \E p \in Procs, args \in FullArgs :
        /\ loggers = <<>>
        /\ Done("__init__", 1, NoSession, p, args, CometLogger__init__(World, p, args))

\* the one adapter of a run, with or without a prefix
ConstructPrefixed ==
    \E p \in Procs, args \in PrefixArgs :
        /\ loggers = <<>>
        /\ Done("__init__", 1, NoSession, p, args, CometLogger__init__(World, p, args))

Experiment ==
    \E i \in Live :
        /\ Done("experiment", i, NoSession, loggers[i].proc, NoArgs, experiment(World, i))

LogHyperparams ==
    \E i \in Live :
        /\ Done("log_hyperparams", i, NoSession, loggers[i].proc, NoArgs, log_hyperparams(World, i))

LogMetrics ==
    \E i \in Live, metrics \in LifeMetrics :
        /\ Done("log_metrics", i, NoSession, loggers[i].proc, [metrics |-> metrics, step |-> None],
                log_metrics(World, i, metrics, None))

\* log_metrics with every mapping and step
LogMetricsFull ==
    \E i \in Live, metrics \in MetricInputs, step \in Steps :
        /\ Done("log_metrics", i, NoSession, loggers[i].proc, [metrics |-> metrics, step |-> step],
                log_metrics(World, i, metrics, step))

LogGraph ==
    \E i \in Live :
        /\ Done("log_graph", i, NoSession, loggers[i].proc, NoArgs, log_graph(World, i))

ResetExperiment ==
    \E i \in Live :
        /\ Done("reset_experiment", i, NoSession, loggers[i].proc, NoArgs, reset_experiment(World, i))

Finalize ==
    \E i \in Live :
        /\ Done("finalize", i, NoSession, loggers[i].proc, NoArgs, finalize(World, i))

\* pickle.loads(pickle.dumps(logger)), the way an adapter reaches process p:
\* __getstate__ of adapter i, and a new adapter from that state
Transfer ==
    \E i \in Live, p \in Procs :
        /\ Len(loggers) < MaxLoggers
        /\ Done("pickle", Len(loggers) + 1, i, p, NoArgs,
                Reconstruct(World, p, __getstate__(World, i)))

\* the reads of the three properties, and __getstate__ on its own
SaveDir ==
    \E i \in Live :
        /\ Done("save_dir", i, NoSession, loggers[i].proc, NoArgs, save_dir(World, i))

Name ==
    \E i \in Live :
        /\ Done("name", i, NoSession, loggers[i].proc, NoArgs, name(World, i))

Version ==
    \E i \in Live :
        /\ Done("version", i, NoSession, loggers[i].proc, NoArgs, version(World, i))

GetState ==
    \E i \in Live :
        /\ Done("__getstate__", i, NoSession, loggers[i].proc, NoArgs,
                [World EXCEPT !.ret = __getstate__(World, i)])

\* the user ends a session through the object `experiment` handed out
EndExternally ==
    \E s \in 1..Len(sessions) :
        /\ sessions[s].alive
        /\ Done("external_end", NoSession, NoSession, loggers[sessions[s].owner].proc, NoArgs,
                HandleEnd(World, s))

\* the strategy assigns rank_zero_only.rank; "main" is the process that
\* stays the primary one, "worker" may be given its rank after it has logged
SetRank ==
    \E p \in Procs \ {"main"}, r \in Ranks :
        /\ rank[p] # r
        /\ rank' = [rank EXCEPT ![p] = r]
        /\ last' = [op |-> "set_rank", logger |-> NoSession, source |-> NoSession, rank |-> r, args |-> NoArgs,
                    calls |-> <<>>, raised |-> "none", ret |-> NoSession, started |-> NoSession,
                    first |-> FALSE]
        /\ UNCHANGED <<loggers, sessions, guids, config_api_key, env_experiment_key>>

Lifecycle ==
    \/ Experiment
    \/ LogHyperparams
    \/ LogMetrics
    \/ LogGraph
    \/ ResetExperiment
    \/ Finalize
    \/ Transfer
    \/ EndExternally
    \/ SetRank

InitCommon ==
    /\ rank = [p \in Procs |-> 0]
    /\ loggers = <<>>
    /\ sessions = <<>>
    /\ guids = 0
    /\ last = [op |-> "none", logger |-> NoSession, source |-> NoSession, rank |-> 0, args |-> NoArgs,
               calls |-> <<>>, raised |-> "none", ret |-> NoSession, started |-> NoSession,
               first |-> FALSE]

Init ==
    /\ InitCommon
    /\ config_api_key = None
    /\ env_experiment_key = None

Next == Construct \/ Lifecycle

Spec == Init /\ [][Next]_vars

\* construction with every argument combination and environment
InitCtor ==
    /\ InitCommon
    /\ config_api_key \in {None, "cfgkey"}
    /\ env_experiment_key \in {None, "", "envkey"}

NextCtor ==
    \/ ConstructFull
    \/ Experiment
    \/ LogHyperparams
    \/ LogMetrics
    \/ LogGraph
    \/ ResetExperiment
    \/ Finalize
    \/ EndExternally

SpecCtor == InitCtor /\ [][NextCtor]_vars

\* the metrics a run logs, with every mapping
NextMetrics ==
    \/ ConstructPrefixed
    \/ Experiment
    \/ LogMetricsFull
    \/ Finalize
    \/ EndExternally
    \/ SetRank

SpecMetrics == Init /\ [][NextMetrics]_vars

\* a run of one adapter, from any arguments, with the observers
NextObs ==
    \/ ConstructFull
    \/ Experiment
    \/ LogGraph
    \/ ResetExperiment
    \/ Finalize
    \/ EndExternally
    \/ SetRank
    \/ SaveDir
    \/ Name
    \/ Version
    \/ GetState

SpecObs == Init /\ [][NextObs]_vars

\* ---- properties ------------------------------------------------------------------------------
\* the operations that read `experiment`
AccessOps == {"experiment", "log_hyperparams", "log_metrics"}

\* the four write calls
WriteOps == {"log_hyperparams", "log_metrics", "log_graph", "finalize"}

\* the sessions adapter i started that are still live
LiveOf(i) == {s \in 1..Len(sessions) : sessions[s].owner = i /\ sessions[s].alive}

\* the last session adapter i started: the one a finalize of i has just ended
LastOf(i) ==
    CHOOSE s \in 1..Len(sessions) :
        /\ sessions[s].owner = i
        /\ \A t \in 1..Len(sessions) : sessions[t].owner = i => t <= s

\* the credential of the claims: the api_key given or else the resolved one
Supplied(a) == a \notin {None, ""}
HasCredential(g) == Supplied(g.api_key) \/ config_api_key # None
HasDirectory(g) == g.save_dir # None

\* C1: an adapter reconstructed from a snapshot taken without a session has an
\* empty handle until its first access, and its first `experiment` access on
\* rank 0 starts a session whose key is the key the serialized adapter had.
C1_RoundTripWithoutSession ==
    \A i \in Live :
        loggers[i].origin.kind = "empty" =>
            /\ (\A s \in 1..Len(sessions) : sessions[s].owner # i)
                   => loggers[i]._experiment = NoSession
            /\ (last.logger = i /\ last.op = "experiment" /\ last.rank = 0 /\ last.first)
                   => /\ last.started # NoSession
                      /\ sessions[last.started].key = loggers[i].origin.key

\* C2 (as claimed): no adapter has more than one live session of its own.
C2_AtMostOneLive == \A i \in Live : Cardinality(LiveOf(i)) <= 1

\* C2 (amended): a session an adapter starts is cached by it (or ended in the
\* same call), and a live cached session leaves the cache only by
\* reset_experiment; so every live session is a cached handle or one that
\* reset_experiment uncached, and without such a reset at most one is live.
C2_LiveLeavesCacheOnlyByReset ==
    [][/\ \A s \in 1..Len(sessions') :
            s > Len(sessions)
                => \/ loggers'[sessions'[s].owner]._experiment = s
                   \/ ~sessions'[s].alive
       /\ \A i \in Live :
            LET s == loggers[i]._experiment
            IN  (/\ s # NoSession
                 /\ sessions[s].alive
                 /\ sessions'[s].alive
                 /\ loggers'[i]._experiment # s)
                    => (last'.op = "reset_experiment" /\ last'.logger = i)]_vars

\* an adapter on its second session: the first is dead, the second live and cached
C2_Witness ==
    \E i \in Live :
        /\ loggers[i]._experiment \in LiveOf(i)
        /\ \E s \in 1..Len(sessions) : sessions[s].owner = i /\ ~sessions[s].alive

\* C3: on a rank other than 0 none of the four write calls reaches the remote
\* client, and none raises.
C3_WriteCallsGated ==
    (last.op \in WriteOps /\ last.rank # 0) => (last.calls = <<>> /\ last.raised = "none")

\* C4: a session is started only by a process whose rank is 0, and an
\* `experiment` access on another rank calls nothing and changes no adapter.
C4_StartOnlyOnRankZero ==
    [][/\ Len(sessions') > Len(sessions) => last'.rank = 0
       /\ (last'.op = "experiment" /\ last'.rank # 0)
              => (last'.calls = <<>> /\ UNCHANGED <<loggers, sessions, guids>>)]_vars

\* an `experiment` access on rank 1 of an adapter without a handle, while a
\* session of the job is live
C4_Witness ==
    /\ last.op = "experiment"
    /\ last.rank # 0
    /\ loggers[last.logger]._experiment = NoSession
    /\ \E s \in 1..Len(sessions) : sessions[s].alive

\* C5: finalize on rank 0 with a cached handle leaves that session dead and
\* the handle empty, and the next `experiment` access starts a session with
\* the key of the session that was ended.
C5_FinalizeThenContinuation ==
    [][\A i \in Live :
        /\ (last'.op = "finalize" /\ last'.logger = i /\ last'.rank = 0
              /\ loggers[i]._experiment # NoSession)
              => /\ ~sessions'[loggers[i]._experiment].alive
                 /\ loggers'[i]._experiment = NoSession
        /\ (/\ last.op = "finalize" /\ last.logger = i /\ last.rank = 0
            /\ last.calls # <<>>
            /\ last'.op = "experiment" /\ last'.logger = i /\ last'.rank = 0)
              => /\ last'.started # NoSession
                 /\ sessions'[last'.started].key = sessions[LastOf(i)].key]_vars

\* C6: finalize on rank 0 with an empty handle calls nothing, raises nothing
\* and changes nothing; every finalize on rank 0 leaves the handle empty, so
\* a second finalize is such a call.
C6_FinalizeIdempotent ==
    [][(last'.op = "finalize" /\ last'.rank = 0)
          => /\ last'.raised = "none" => loggers'[last'.logger]._experiment = NoSession
             /\ loggers[last'.logger]._experiment = NoSession
                    => /\ last'.calls = <<>>
                       /\ last'.raised = "none"
                       /\ UNCHANGED <<loggers, sessions, guids, rank>>]_vars

\* a finalize that did nothing, directly after the finalize that ended a session
C6_Witness ==
    /\ last.op = "finalize"
    /\ last.rank = 0
    /\ last.calls = <<>>
    /\ loggers[last.logger]._experiment = NoSession
    /\ \E s \in 1..Len(sessions) : sessions[s].owner = last.logger /\ ~sessions[s].alive

\* the attributes __getstate__ copies unchanged
CopiedAttrs == {"mode", "api_key", "_save_dir", "_project_name", "_experiment_name",
                "_prefix", "_kwargs"}

\* the state __getstate__ returns for adapter i has the key of the cached
\* session, an empty handle and every other attribute as it is
SnapshotOf(i) ==
    LET state == __getstate__(World, i).state
    IN  /\ state._experiment_key = sessions[loggers[i]._experiment].key
        /\ state._experiment = NoSession
        /\ \A f \in CopiedAttrs : state[f] = loggers[i][f]

\* C7: wherever an adapter holds a cached session, the state __getstate__
\* returns has that session's key, an empty handle and every other attribute
\* unchanged; the adapter built from it has these attributes and starts, on
\* its first `experiment` access on rank 0, a session with that key.
C7_SnapshotWithSession ==
    /\ [](\A i \in Live : loggers[i]._experiment # NoSession => SnapshotOf(i))
    /\ [][/\ \A i \in Live :
              (last'.op = "pickle" /\ last'.source = i /\ loggers[i]._experiment # NoSession)
                  => LET new == loggers'[last'.logger]
                     IN  /\ new._experiment_key = sessions[loggers[i]._experiment].key
                         /\ new._experiment = NoSession
                         /\ \A f \in CopiedAttrs : new[f] = loggers[i][f]
          /\ (last'.op \in AccessOps /\ last'.rank = 0 /\ last'.first
                /\ loggers[last'.logger].origin.kind = "live")
               => /\ last'.started # NoSession
                  /\ sessions'[last'.started].key = loggers[last'.logger]._experiment_key
                  /\ sessions'[last'.started].key = loggers[last'.logger].origin.key]_vars

\* the first access of an adapter rebuilt from a snapshot taken beside a session
C7_Witness ==
    /\ last.op \in AccessOps
    /\ last.rank = 0
    /\ last.first
    /\ last.started # NoSession
    /\ loggers[last.logger].origin.kind = "live"

\* C8: the first `experiment` access on rank 0 of an adapter constructed with
\* a directory and no credential raises nothing and starts an offline session
\* with that directory.
C8_OfflineOnlyUsable ==
    \A i \in Live :
        (/\ ~HasCredential(loggers[i].given)
         /\ HasDirectory(loggers[i].given)
         /\ last.logger = i /\ last.op \in AccessOps /\ last.rank = 0 /\ last.first)
            => /\ last.raised = "none"
               /\ last.started # NoSession
               /\ ~sessions[last.started].online
               /\ sessions[last.started].offline_directory = loggers[i].given.save_dir

\* C9: at every moment of an adapter's life its mode is the one its
\* construction arguments resolve to: offline with a directory only, online
\* with a credential only, and with both online unless the offline flag is set.
C9_ModeResolution ==
    \A i \in Live :
        LET g == loggers[i].given
        IN  /\ (HasDirectory(g) /\ ~HasCredential(g)) => loggers[i].mode = "offline"
            /\ (HasCredential(g) /\ ~HasDirectory(g)) => loggers[i].mode = "online"
            /\ (HasCredential(g) /\ HasDirectory(g))
                   => loggers[i].mode = IF g.offline THEN "offline" ELSE "online"

\* an adapter given both and the offline flag, after it has started a session
C9_Witness ==
    \E i \in Live :
        /\ HasCredential(loggers[i].given)
        /\ HasDirectory(loggers[i].given)
        /\ loggers[i].given.offline
        /\ loggers[i].mode = "offline"
        /\ loggers[i]._experiment # NoSession

\* C10: construction without credential and without directory raises the
\* MisconfigurationException, whatever the other arguments are, leaves no
\* adapter and starts no session.
C10_ConstructionFails ==
    (last.op = "__init__" /\ ~HasCredential(last.args) /\ ~HasDirectory(last.args))
        => /\ last.raised = "MisconfigurationException"
           /\ last.calls = <<>>
           /\ last.started = NoSession
           /\ loggers = <<>>
           /\ sessions = <<>>

\* a failed construction with every optional argument given
C10_Witness ==
    /\ last.op = "__init__"
    /\ last.raised = "MisconfigurationException"
    /\ last.args.project_name = "proj"
    /\ last.args.experiment_name = "name"
    /\ last.args.experiment_key = "k1"
    /\ last.args.offline
    /\ last.args.prefix = "pre"
    /\ last.args.kwargs = "{workspace}"

\* C11: the key a construction resolves is the experiment_key argument when
\* one is given, else the COMET_EXPERIMENT_KEY of the environment when it is
\* set, else an identifier generated by that construction; with an argument
\* given the key does not depend on the environment.
C11_KeyResolution ==
    (last.op = "__init__" /\ last.raised = "none")
        => LET key == loggers[last.logger]._experiment_key
           IN  IF Supplied(last.args.experiment_key)
               THEN key = last.args.experiment_key /\ guids = 0
               ELSE IF Supplied(env_experiment_key)
               THEN key = env_experiment_key /\ guids = 0
               ELSE key = Guid(guids) /\ guids = 1

\* a construction with the argument given while the environment has a key too
C11_Witness ==
    /\ last.op = "__init__"
    /\ last.raised = "none"
    /\ last.args.experiment_key = "k1"
    /\ env_experiment_key = "envkey"
    /\ loggers[last.logger]._experiment_key = "k1"

\* the log_metrics calls the last operation made on the client
MetricCalls == {n \in 1..Len(last.calls) : last.calls[n].m = "log_metrics"}

\* the name a metric is forwarded under by adapter i
Forwarded(i, key) ==
    IF loggers[i]._prefix = "" THEN key ELSE loggers[i]._prefix \o "-" \o key

\* the same value, a tensor possibly moved or detached
SameValue(a, b) == a.kind = b.kind /\ (a.kind # "tensor" => a = b)

\* C12: the mapping log_metrics forwards has no key "epoch"; an "epoch" of the
\* input is forwarded as the epoch argument, which is None otherwise; every
\* other input key is forwarded once, behind `prefix-` when the prefix is not
\* empty and as it is otherwise, with its own value.
C12_EpochExtracted ==
    last.op = "log_metrics"
        => \A n \in MetricCalls :
            LET input == last.args.metrics
                sent == last.calls[n].a
                others == DOMAIN input \ {"epoch"}
            IN  /\ "epoch" \notin DOMAIN sent.metrics
                /\ IF "epoch" \in DOMAIN input
                   THEN SameValue(sent.epoch, input["epoch"])
                   ELSE sent.epoch = NoValue
                /\ DOMAIN sent.metrics = {Forwarded(last.logger, key) : key \in others}
                /\ Cardinality(DOMAIN sent.metrics) = Cardinality(others)
                /\ \A key \in others :
                       SameValue(sent.metrics[Forwarded(last.logger, key)], input[key])
                /\ sent.step = last.args.step

\* a prefixed adapter forwards a mapping that had "epoch" and two other keys
C12_Witness ==
    /\ last.op = "log_metrics"
    /\ MetricCalls # {}
    /\ loggers[last.logger]._prefix = "pre"
    /\ DOMAIN last.args.metrics = {"epoch", "loss", "pre-loss"}

\* neither on a device nor on a computation graph
Detached(val) == val.kind = "tensor" => (val.device = "cpu" /\ ~val.attached)

\* C13: every value log_metrics hands to the client, in the mapping or as the
\* epoch argument, is detached and in host memory.
C13_TensorsDetached ==
    last.op = "log_metrics"
        => \A n \in MetricCalls :
            LET sent == last.calls[n].a
            IN  /\ Detached(sent.epoch)
                /\ \A key \in DOMAIN sent.metrics : Detached(sent.metrics[key])

\* a call forwarded with a graph-attached device tensor as "epoch" and as "loss"
C13_Witness ==
    /\ last.op = "log_metrics"
    /\ MetricCalls # {}
    /\ "epoch" \in DOMAIN last.args.metrics
    /\ "loss" \in DOMAIN last.args.metrics
    /\ last.args.metrics["epoch"] = [kind |-> "tensor", device |-> "cuda", attached |-> TRUE]
    /\ last.args.metrics["loss"] = [kind |-> "tensor", device |-> "cuda", attached |-> TRUE]

\* C14: the version of every adapter, constructed or reconstructed, before,
\* during and after its sessions, is the key the construction resolved, and
\* is not None.
C14_VersionStable ==
    \A i \in Live :
        /\ version(World, i).ret # None
        /\ version(World, i).ret = loggers[1]._experiment_key

\* the reads and __getstate__
ObserverOps == {"save_dir", "name", "version", "__getstate__"}

\* C18: a read of save_dir, name or version and a call of __getstate__, on
\* any rank, make no call on the client, raise nothing and leave every
\* adapter, every session and the identifiers as they are.
C18_ObserversNoEffect ==
    [][last'.op \in ObserverOps
          => /\ last'.calls = <<>>
             /\ last'.raised = "none"
             /\ UNCHANGED <<loggers, sessions, guids, rank>>]_vars

\* a snapshot taken beside a live session
C18_Witness ==
    /\ last.op = "__getstate__"
    /\ loggers[last.logger]._experiment # NoSession
    /\ sessions[loggers[last.logger]._experiment].alive

\* the calls of method m the last operation made on the client
CallsOf(m) == {n \in 1..Len(last.calls) : last.calls[n].m = m}

\* C15: construction calls nothing and leaves the handle empty; an access on
\* rank 0 (`experiment`, log_hyperparams, log_metrics) calls start-session
\* when and only when the cached handle is empty or dead, and then once, so
\* the accesses up to the first finalize, reset or death make one such call;
\* the session started is tagged and cached.
C15_LazyOnce ==
    [][/\ last'.op = "__init__"
            => /\ last'.calls = <<>>
               /\ sessions' = sessions
               /\ last'.raised = "none" => loggers'[last'.logger]._experiment = NoSession
       /\ (last'.op \in AccessOps /\ last'.rank = 0)
            => LET i == last'.logger
                   h == loggers[i]._experiment
                   starts == {n \in 1..Len(last'.calls) : last'.calls[n].m = "start"}
               IN  IF h # NoSession /\ sessions[h].alive
                   THEN starts = {} /\ loggers'[i]._experiment = h
                   ELSE /\ Cardinality(starts) = 1
                        /\ last'.started # NoSession
                        /\ sessions'[last'.started].tagged
                        /\ loggers'[i]._experiment = last'.started]_vars

\* C16: an `experiment` access on rank 0 returns the cached handle, and that
\* session is live; the one call log_hyperparams and log_metrics forward on
\* rank 0 goes to the cached handle, which is live.
C16_NeverDeadHandle ==
    (last.op \in AccessOps /\ last.rank = 0)
        => LET h == loggers[last.logger]._experiment
           IN  /\ last.raised = "none"
               /\ h # NoSession
               /\ sessions[h].alive
               /\ last.op = "experiment" => last.ret = h
               /\ last.op = "log_hyperparams"
                      => /\ Cardinality(CallsOf("log_parameters")) = 1
                         /\ \A n \in CallsOf("log_parameters") : last.calls[n].h = h
               /\ last.op = "log_metrics"
                      => /\ Cardinality(CallsOf("log_metrics")) = 1
                         /\ \A n \in CallsOf("log_metrics") : last.calls[n].h = h

\* C17: log_metrics never raises the AssertionError of its first line; on a
\* rank other than 0 the call returns without a call on the client.
C17_AssertionNeverFails ==
    last.op = "log_metrics"
        => /\ last.raised # "AssertionError"
           /\ last.rank # 0 => (last.calls = <<>> /\ last.raised = "none")

\* log_metrics on rank 1 of an adapter that holds a live session
C17_Witness ==
    /\ last.op = "log_metrics"
    /\ last.rank # 0
    /\ loggers[last.logger]._experiment # NoSession
    /\ sessions[loggers[last.logger]._experiment].alive

\* C19: finalize makes no start-session call.
C19_FinalizeNeverStarts ==
    last.op = "finalize" => (CallsOf("start") = {} /\ last.started = NoSession)

\* C20: log_graph with an empty handle calls nothing; with a cached handle
\* it makes one call, set_model_graph on that handle; either way it starts
\* no session and changes no adapter, session or identifier.
C20_LogGraphNeverStarts ==
    [][last'.op = "log_graph"
          => LET h == loggers[last'.logger]._experiment
             IN  /\ last'.raised = "none"
                 /\ UNCHANGED <<loggers, sessions, guids, rank>>
                 /\ IF h = NoSession
                    THEN last'.calls = <<>>
                    ELSE last'.calls = <<[m |-> "set_model_graph", h |-> h, a |-> "model"]>>]_vars

\* log_graph on rank 0 of an adapter that has not started a session
C20_Witness ==
    /\ last.op = "log_graph"
    /\ last.rank = 0
    /\ last.calls = <<>>
    /\ loggers[last.logger]._experiment = NoSession
    /\ \A s \in 1..Len(sessions) : sessions[s].owner # last.logger

====
